---- MODULE Spec2Model ----
(***************************************************************************)
(* A model of the gallery generator (generate_gallery.py): one run of      *)
(* main() as a sequential state machine over a small file system.          *)
(*                                                                         *)
(* Python strings are sequences of one-character strings, so that          *)
(* splitting, lower-casing, substring search and comparison are computed   *)
(* rather than assumed.                                                    *)
(***************************************************************************)
EXTENDS Integers, Sequences, FiniteSets, TLC

(***************************************************************************)
(* Characters.  Ascii lists the characters of the model in increasing code *)
(* point order; Ord is the position in that list, which orders characters  *)
(* the way Python orders code points.                                      *)
(***************************************************************************)
Ascii ==
    << " ", "-", ".", "/",
       "0", "1", "2", "3", "4", "5", "6", "7", "8", "9", ":",
       "A", "B", "C", "D", "E", "F", "G", "H", "I", "J", "K", "L", "M",
       "N", "O", "P", "Q", "R", "S", "T", "U", "V", "W", "X", "Y", "Z",
       "_",
       "a", "b", "c", "d", "e", "f", "g", "h", "i", "j", "k", "l", "m",
       "n", "o", "p", "q", "r", "s", "t", "u", "v", "w", "x", "y", "z" >>

Char == { Ascii[i] : i \in 1..Len(Ascii) }

Ord == [ c \in Char |-> CHOOSE i \in 1..Len(Ascii) : Ascii[i] = c ]

UpperFirst == Ord["A"]

UpperLast == Ord["Z"]

\* str.lower() on one character: A-Z map to a-z, everything else is kept.
LowerChar(c) ==
    IF Ord[c] >= UpperFirst /\ Ord[c] <= UpperLast
    THEN Ascii[Ord[c] - UpperFirst + Ord["a"]]
    ELSE c

\* str.lower()
Lower(s) == [ i \in 1..Len(s) |-> LowerChar(s[i]) ]

\* s[a:b] with 0-based Python slice bounds, 0 <= a
Slice(s, a, b) ==
    LET hi == IF b > Len(s) THEN Len(s) ELSE b
    IN  IF a >= hi THEN << >> ELSE SubSeq(s, a + 1, hi)

\* s.startswith(p)
StartsWith(s, p) == Len(p) <= Len(s) /\ SubSeq(s, 1, Len(p)) = p

\* p in s  (substring test)
Contains(s, p) ==
    \E i \in 0..(Len(s) - Len(p)) : SubSeq(s, i + 1, i + Len(p)) = p

\* s.rfind(c) for a single character: 0-based index of the last occurrence, -1 if none
RFind(s, c) ==
    LET hits == { i \in 1..Len(s) : s[i] = c }
    IN  IF hits = {} THEN -1
        ELSE (CHOOSE i \in hits : \A j \in hits : j <= i) - 1

\* s.split(sep) for a single-character separator
RECURSIVE Split(_, _)
Split(s, sep) ==
    LET hits == { i \in 1..Len(s) : s[i] = sep }
    IN  IF hits = {} THEN << s >>
        ELSE LET i == CHOOSE k \in hits : \A j \in hits : k <= j
             IN  << SubSeq(s, 1, i - 1) >> \o Split(SubSeq(s, i + 1, Len(s)), sep)

\* s.replace(old, new) for a non-empty old: every non-overlapping occurrence, left to right
RECURSIVE Replace(_, _, _)
Replace(s, old, new) ==
    IF Len(s) < Len(old) THEN s
    ELSE IF StartsWith(s, old)
         THEN new \o Replace(SubSeq(s, Len(old) + 1, Len(s)), old, new)
         ELSE << s[1] >> \o Replace(Tail(s), old, new)

\* str(n) for a natural number
Digit(d) == Ascii[Ord["0"] + d]

RECURSIVE Str(_)
Str(n) == IF n < 10 THEN << Digit(n) >> ELSE Str(n \div 10) \o << Digit(n % 10) >>

\* Python's < on strings: lexicographic by code point, a proper prefix is smaller
RECURSIVE StrLess(_, _)
StrLess(a, b) ==
    IF b = << >> THEN FALSE
    ELSE IF a = << >> THEN TRUE
    ELSE IF a[1] # b[1] THEN Ord[a[1]] < Ord[b[1]]
    ELSE StrLess(Tail(a), Tail(b))

\* sorted(xs) for a list of strings (insertion into an already sorted prefix)
RECURSIVE Insert(_, _)
Insert(x, xs) ==
    IF xs = << >> THEN << x >>
    ELSE IF StrLess(xs[1], x) THEN << xs[1] >> \o Insert(x, Tail(xs))
    ELSE << x >> \o xs

\* sorted() left out: the list is used in the order it was given
sortedAsGiven(xs) == xs

RECURSIVE sorted(_)
sorted(xs) == IF xs = << >> THEN << >> ELSE Insert(xs[1], sorted(Tail(xs)))

\* os.path.splitext(p): the extension starts at the last dot of the last path
\* component, unless that component has only dots before it
splitext(p) ==
    LET sepIndex == RFind(p, "/")
        dotIndex == RFind(p, ".")
    IN  IF dotIndex > sepIndex
           /\ \E k \in (sepIndex + 1)..(dotIndex - 1) : p[k + 1] # "."
        THEN << Slice(p, 0, dotIndex), Slice(p, dotIndex, Len(p)) >>
        ELSE << p, << >> >>

\* os.path.join(folder, name)
join(folder, name) == folder \o << "/" >> \o name

(***************************************************************************)
(* Module-level configuration of generate_gallery.py.                      *)
(***************************************************************************)
IMAGE_FOLDER == << "i", "m", "a", "g", "e", "s" >>

THUMBNAIL_FOLDER == << "t", "h", "u", "m", "b", "n", "a", "i", "l", "s" >>

\* GALLERY_OUTPUT_FOLDER is set to "out" in the modelled runs (the default "." always exists)
OUTPUT_FOLDER == << "o", "u", "t" >>

OUTPUT_PREFIX == << "i", "n", "d", "e", "x" >>

\* R2_BASE_URL is unset in the modelled runs
R2_BASE_URL == << >>

VALID_EXTENSIONS ==
    { << ".", "j", "p", "g" >>, << ".", "j", "p", "e", "g" >>, << ".", "p", "n", "g" >>,
      << ".", "g", "i", "f" >>, << ".", "w", "e", "b", "p" >> }

AVAILABLE_TAGS ==
    << << "b", "u", "i", "l", "d", "s" >>,
       << "r", "e", "d", "s", "t", "o", "n", "e" >>,
       << "l", "a", "n", "d", "s", "c", "a", "p", "e" >>,
       << "e", "v", "e", "n", "t" >>,
       << "p", "v", "p" >>,
       << "f", "a", "r", "m", "i", "n", "g" >>,
       << "m", "i", "n", "i", "n", "g" >>,
       << "n", "e", "t", "h", "e", "r" >>,
       << "e", "n", "d" >>,
       << "v", "i", "l", "l", "a", "g", "e" >>,
       << "c", "a", "s", "t", "l", "e" >>,
       << "m", "o", "d", "e", "r", "n" >>,
       << "m", "e", "d", "i", "e", "v", "a", "l" >> >>

WEBP_EXT == << ".", "w", "e", "b", "p" >>

HTML_EXT == << ".", "h", "t", "m", "l" >>

METADATA_NAME ==
    << "g", "a", "l", "l", "e", "r", "y", "_", "m", "e", "t", "a", "d", "a", "t", "a",
       ".", "j", "s", "o", "n" >>

LORE_NAME == << "c", "a", "r", "c", "o", "s", "a", ".", "h", "t", "m", "l" >>

(***************************************************************************)
(* Bounds of the model and the directory entries the runs draw from.       *)
(***************************************************************************)
\* most entries a source directory holds
MaxFiles == 3

\* largest configured page size (IMAGES_PER_PAGE ranges over 1..MaxPageSize)
MaxPageSize == 2

\* number of consecutive runs of main() over the same file system
MaxRuns == 2

\* "end_1_2-3.png", "Pvp_End.GIF", "a.jpg", "a.png", "n.txt"
FileUniverse ==
    { << "e", "n", "d", "_", "1", "_", "2", "-", "3", ".", "p", "n", "g" >>,
      << "P", "v", "p", "_", "E", "n", "d", ".", "G", "I", "F" >>,
      << "a", ".", "j", "p", "g" >>,
      << "a", ".", "p", "n", "g" >>,
      << "n", ".", "t", "x", "t" >> }

\* What opening a source file as an image does: "ok"; "undecodable", Image.open
\* raises; "unencodable", Image.open succeeds and img.save raises.
ImageKinds == { "ok", "undecodable", "unencodable" }

\* img.size of a decodable source file: pixel width and height
ImageSize(fname) == << Len(fname), 3 >>

RECURSIVE Gcd(_, _)
Gcd(a, b) == IF b = 0 THEN a ELSE Gcd(b, a % b)

\* width / height as a fraction in lowest terms
Ratio(w, h) == [ num |-> w \div Gcd(w, h), den |-> h \div Gcd(w, h) ]

(***************************************************************************)
(* parse_filename_enhanced                                                 *)
(***************************************************************************)
\* the parser with the time segment kept verbatim (no hyphen replacement)
parse_filename_time_verbatim(fname) ==
    LET name == splitext(fname)[1]
        parts == Split(Lower(name), "_")
        Detected(tag) == \E i \in 1..Len(parts) : Contains(parts[i], tag)
        detected_tags == SelectSeq(AVAILABLE_TAGS, Detected)
    IN  IF Len(parts) >= 3
        THEN [ tag |-> parts[1],
               date |-> parts[2] \o << " " >> \o parts[3],
               auto_tags |-> detected_tags ]
        ELSE [ tag |-> << "s", "c", "r", "e", "e", "n", "s", "h", "o", "t" >>,
               date |-> << "U", "n", "k", "n", "o", "w", "n" >>,
               auto_tags |-> detected_tags ]

\* the parser detecting tags only in names of the three-segment shape
parse_filename_tags_need_shape(fname) ==
    LET name == splitext(fname)[1]
        parts == Split(Lower(name), "_")
        Detected(tag) == \E i \in 1..Len(parts) : Contains(parts[i], tag)
        detected_tags == SelectSeq(AVAILABLE_TAGS, Detected)
    IN  IF Len(parts) >= 3
        THEN [ tag |-> parts[1],
               date |-> parts[2] \o << " " >> \o Replace(parts[3], << "-" >>, << ":" >>),
               auto_tags |-> detected_tags ]
        ELSE [ tag |-> << "s", "c", "r", "e", "e", "n", "s", "h", "o", "t" >>,
               date |-> << "U", "n", "k", "n", "o", "w", "n" >>,
               auto_tags |-> << >> ]

\* the parser detecting tags in the segments as written (case-sensitive)
parse_filename_case_sensitive(fname) ==
    LET name == splitext(fname)[1]
        parts == Split(Lower(name), "_")
        written_parts == Split(name, "_")
        Detected(tag) == \E i \in 1..Len(written_parts) : Contains(written_parts[i], tag)
        detected_tags == SelectSeq(AVAILABLE_TAGS, Detected)
    IN  IF Len(parts) >= 3
        THEN [ tag |-> parts[1],
               date |-> parts[2] \o << " " >> \o Replace(parts[3], << "-" >>, << ":" >>),
               auto_tags |-> detected_tags ]
        ELSE [ tag |-> << "s", "c", "r", "e", "e", "n", "s", "h", "o", "t" >>,
               date |-> << "U", "n", "k", "n", "o", "w", "n" >>,
               auto_tags |-> detected_tags ]

parse_filename_enhanced(fname) ==
    LET name == splitext(fname)[1]
        parts == Split(Lower(name), "_")
        Detected(tag) == \E i \in 1..Len(parts) : Contains(parts[i], tag)
        detected_tags == SelectSeq(AVAILABLE_TAGS, Detected)
    IN  IF Len(parts) >= 3
        THEN [ tag |-> parts[1],
               date |-> parts[2] \o << " " >> \o Replace(parts[3], << "-" >>, << ":" >>),
               auto_tags |-> detected_tags ]
        ELSE [ tag |-> << "s", "c", "r", "e", "e", "n", "s", "h", "o", "t" >>,
               date |-> << "U", "n", "k", "n", "o", "w", "n" >>,
               auto_tags |-> detected_tags ]

(***************************************************************************)
(* create_optimized_thumbnail: the path it writes and what it returns.     *)
(* A failed img.save leaves no file behind.                                *)
(***************************************************************************)
webp_path(thumbnail_path) ==
    Replace(thumbnail_path, splitext(thumbnail_path)[2], WEBP_EXT)

create_optimized_thumbnail(image_path, thumbnail_path, kind) ==
    IF kind = "ok"
    THEN [ ok |-> TRUE, path |-> webp_path(thumbnail_path) ]
    ELSE [ ok |-> FALSE, path |-> << >> ]

(***************************************************************************)
(* The per-file computations of generate_image_metadata's loop body.       *)
(***************************************************************************)
\* the extension filter accepting every extension
IsImageAnyExtension(fname) == splitext(fname)[2] # << >>

\* ext = os.path.splitext(fname)[1].lower(); ext in VALID_EXTENSIONS
IsImage(fname) == Lower(splitext(fname)[2]) \in VALID_EXTENSIONS

thumb_name(fname) == splitext(fname)[1] \o WEBP_EXT

thumb_path(fname) == join(THUMBNAIL_FOLDER, thumb_name(fname))

\* the try/except around the dimension read: 1.0 when Image.open raises
aspect_ratio(fname, kind) ==
    IF kind = "undecodable" THEN Ratio(1, 1)
    ELSE Ratio(ImageSize(fname)[1], ImageSize(fname)[2])

image_src(fname) ==
    IF R2_BASE_URL # << >> THEN join(R2_BASE_URL, fname) ELSE join(IMAGE_FOLDER, fname)

\* image_data; the "hash" field (an md5 prefix of the name) is not represented
image_data(fname, kind) ==
    LET parsed == parse_filename_enhanced(fname)
    IN  [ filename |-> fname,
          src |-> image_src(fname),
          thumbnail |-> join(THUMBNAIL_FOLDER, thumb_name(fname)),
          alt |-> fname,
          tag |-> parsed.tag,
          date |-> parsed.date,
          auto_tags |-> parsed.auto_tags,
          aspect_ratio |-> aspect_ratio(fname, kind) ]

(***************************************************************************)
(* generate_enhanced_html: the navigation block and the image cards of one *)
(* page.  A link is its kind, its href, whether it carries the "active"    *)
(* class, and the ordinal of a numbered link (0 for the others).           *)
(***************************************************************************)
PageHref(suffix) == OUTPUT_PREFIX \o suffix \o HTML_EXT

NumberedLink(i, page_num) ==
    [ kind |-> "page",
      href |-> PageHref(IF i = 1 THEN << >> ELSE Str(i)),
      active |-> (i = page_num),
      ordinal |-> i ]

NavLink(kind, suffix) ==
    [ kind |-> kind, href |-> PageHref(suffix), active |-> FALSE, ordinal |-> 0 ]

\* Navigation with the Prev link always suffixed: page 2 links back to "index1.html"
NavigationPrevSuffixed(page_num, total_pages) ==
    LET prev_suffix == Str(page_num - 1)
        head == IF page_num > 1
                THEN << NavLink("first", << >>), NavLink("prev", prev_suffix) >>
                ELSE << >>
        numbered == [ i \in 1..total_pages |-> NumberedLink(i, page_num) ]
        tail == IF page_num < total_pages
                THEN << NavLink("next", Str(page_num + 1)),
                        NavLink("last", Str(total_pages)) >>
                ELSE << >>
    IN  head \o numbered \o tail

\* Navigation with the Next/Last test off by one: the last page gets them too
NavigationNextOnLast(page_num, total_pages) ==
    LET prev_suffix == IF page_num = 2 THEN << >> ELSE Str(page_num - 1)
        head == IF page_num > 1
                THEN << NavLink("first", << >>), NavLink("prev", prev_suffix) >>
                ELSE << >>
        numbered == [ i \in 1..total_pages |-> NumberedLink(i, page_num) ]
        tail == IF page_num <= total_pages
                THEN << NavLink("next", Str(page_num + 1)),
                        NavLink("last", Str(total_pages)) >>
                ELSE << >>
    IN  head \o numbered \o tail

Navigation(page_num, total_pages) ==
    LET prev_suffix == IF page_num = 2 THEN << >> ELSE Str(page_num - 1)
        head == IF page_num > 1
                THEN << NavLink("first", << >>), NavLink("prev", prev_suffix) >>
                ELSE << >>
        numbered == [ i \in 1..total_pages |-> NumberedLink(i, page_num) ]
        tail == IF page_num < total_pages
                THEN << NavLink("next", Str(page_num + 1)),
                        NavLink("last", Str(total_pages)) >>
                ELSE << >>
    IN  head \o numbered \o tail

ImageCard(img) ==
    [ thumbnail |-> img.thumbnail, full_src |-> img.src, alt |-> img.alt,
      tag |-> img.tag, date |-> img.date, auto_tags |-> img.auto_tags ]

generate_enhanced_html(images, page_num, total_pages, metadata) ==
    [ filter_tags |-> sorted(metadata.tags),
      nav |-> Navigation(page_num, total_pages),
      page_num |-> page_num,
      total_pages |-> total_pages,
      total_count |-> metadata.total_count,
      cards |-> [ i \in 1..Len(images) |-> ImageCard(images[i]) ] ]

(***************************************************************************)
(* write_enhanced_pages: page count, slice and file name of a page.        *)
(***************************************************************************)
\* the page count rounded down instead of up
TotalPagesFloor(total, per_page) == total \div per_page

\* ceil(total / per_page) for positive integers
TotalPages(total, per_page) ==
    IF total % per_page = 0 THEN total \div per_page ELSE (total \div per_page) + 1

\* the slice taken with the page number as if it were 0-based
PageImagesZeroBased(images, page_num, per_page) ==
    LET start == page_num * per_page
        end == start + per_page
    IN  Slice(images, start, end)

PageImages(images, page_num, per_page) ==
    LET start == (page_num - 1) * per_page
        end == start + per_page
    IN  Slice(images, start, end)

PageFile(page_num) ==
    join(OUTPUT_FOLDER, PageHref(IF page_num = 1 THEN << >> ELSE Str(page_num)))

(***************************************************************************)
(* State.                                                                  *)
(*   File system: imgFolderExists, entries (the names in IMAGE_FOLDER),    *)
(*   imageKind, thumbDirExists, thumbs (thumbnail path                     *)
(*   -> the source it was made from and the run that made it; run 0 is a   *)
(*   file older than the first run), outFolderExists, metadataFile (the    *)
(*   JSON document, if written), pages (page path -> rendered page),       *)
(*   loreFile.                                                             *)
(*   Process: pc, run, metadata, todo (entries the loop has yet to visit), *)
(*   page_num, total_pages, log (what was printed), exitStatus (-1 while   *)
(*   running).                                                             *)
(*   History: written (paths created or written by the current run),       *)
(*   thumbEvents (per processed image: did a file exist at its thumbnail   *)
(*   path when it was processed), thumbsAtStart (thumbs when the current   *)
(*   run began).                                                           *)
(*   A call of parse_filename_enhanced on its own: argument, result (empty *)
(*   until the call has returned).                                         *)
(*   convert_images.py: folder (the files of FOLDER, name -> the name the  *)
(*   file had before the first pass), remaining (the part of the listing   *)
(*   the loop has yet to visit), cpc, pass, renames (the renames of the    *)
(*   current pass), folderAtStart.                                         *)
(***************************************************************************)
VARIABLES imgFolderExists, entries, imageKind, thumbDirExists, thumbs,
          outFolderExists, metadataFile, pages, loreFile, IMAGES_PER_PAGE,
          pc, run, metadata, todo, page_num, total_pages, log, exitStatus,
          written, thumbEvents, thumbsAtStart,
          argument, result,
          folder, remaining, cpc, pass, renames, folderAtStart

fsVars == << imgFolderExists, entries, imageKind, thumbDirExists, thumbs,
             outFolderExists, metadataFile, pages, loreFile >>

galleryVars == << imgFolderExists, entries, imageKind, thumbDirExists, thumbs,
                  outFolderExists, metadataFile, pages, loreFile, IMAGES_PER_PAGE,
                  pc, run, metadata, todo, page_num, total_pages, log, exitStatus,
                  written, thumbEvents, thumbsAtStart >>

\* the state of the two other programs of the repository (see below)
toolVars == << argument, result, folder, remaining, cpc, pass, renames, folderAtStart >>

vars == << galleryVars, toolVars >>

Range(s) == { s[i] : i \in 1..Len(s) }

Notice(kind, arg) == [ kind |-> kind, arg |-> arg ]

\* the metadata dict as generate_image_metadata creates it
EmptyMetadata == [ images |-> << >>, tags |-> {}, total_count |-> 0 ]

\* a thumbnail file that predates the first run
OldThumb == [ from |-> << >>, run |-> 0 ]

NoFiles == [ p \in {} |-> OldThumb ]

NoEvents == [ f \in {} |-> [ existed |-> FALSE ] ]

\* carcosa.md is present in the working directory of the modelled runs
LoreSourceExists == TRUE

\* every order in which list(a_set) can enumerate the set
RECURSIVE Orderings(_)
Orderings(S) ==
    IF S = {} THEN { << >> }
    ELSE UNION { { << x >> \o rest : rest \in Orderings(S \ {x}) } : x \in S }

Images(dir) == { f \in dir : IsImage(f) }

\* neither parse_filename_enhanced on its own nor convert_images.py is running
NoNames == [ n \in {} |-> << >> ]

ToolsIdle ==
    /\ argument = << >>
    /\ result = {}
    /\ folder = NoNames
    /\ remaining = << >>
    /\ cpc = "idle"
    /\ pass = 0
    /\ renames = {}
    /\ folderAtStart = NoNames

Init ==
    /\ imgFolderExists \in BOOLEAN
    /\ entries \in (IF imgFolderExists
                    THEN { S \in SUBSET FileUniverse : Cardinality(S) <= MaxFiles }
                    ELSE { {} })
    /\ imageKind \in [ Images(entries) -> ImageKinds ]
    /\ \E cached \in SUBSET { thumb_path(f) : f \in Images(entries) } :
          thumbs = [ p \in cached |-> OldThumb ]
    /\ thumbDirExists \in (IF DOMAIN thumbs # {} THEN { TRUE } ELSE BOOLEAN)
    /\ outFolderExists \in BOOLEAN
    /\ metadataFile = {}
    /\ pages = NoFiles
    /\ loreFile = FALSE
    /\ IMAGES_PER_PAGE \in 1..MaxPageSize
    /\ pc = "start"
    /\ run = 1
    /\ metadata = EmptyMetadata
    /\ todo = << >>
    /\ page_num = 0
    /\ total_pages = 0
    /\ log = << Notice("start", << >>) >>
    /\ exitStatus = -1
    /\ written = {}
    /\ thumbEvents = NoEvents
    /\ thumbsAtStart = thumbs
    /\ ToolsIdle

(***************************************************************************)
(* generate_image_metadata                                                 *)
(***************************************************************************)
\* the existence test left out
SourceFolderAssumed(exists) == TRUE

\* os.path.exists(IMAGE_FOLDER)
SourceFolderFound(exists) == exists

\* the cache test left out: every thumbnail is made again
NeedsThumbnailAlways(path, files) == TRUE

\* not os.path.exists(thumb_path)
NeedsThumbnail(path, files) == path \notin DOMAIN files

\* The folder is missing: the notice is printed and the empty metadata returned.
FolderMissing ==
    /\ pc = "start"
    /\ ~SourceFolderFound(imgFolderExists)
    /\ log' = Append(log, Notice("folder_not_found", IMAGE_FOLDER))
    /\ pc' = "main_check"
    /\ UNCHANGED << fsVars, IMAGES_PER_PAGE, run, metadata, todo, page_num,
                    total_pages, exitStatus, written, thumbEvents, thumbsAtStart >>
    /\ UNCHANGED toolVars

\* os.makedirs(THUMBNAIL_FOLDER, exist_ok=True); os.listdir returns the entries in
\* an order of its own choosing, and the loop runs over sorted() of that.
ScanFolder ==
    /\ pc = "start"
    /\ SourceFolderFound(imgFolderExists)
    /\ thumbDirExists' = TRUE
    /\ written' = IF thumbDirExists THEN written ELSE written \cup { THUMBNAIL_FOLDER }
    /\ \E listing \in Orderings(entries) : todo' = sorted(listing)
    /\ pc' = "loop"
    /\ UNCHANGED << imgFolderExists, entries, imageKind, thumbs, outFolderExists,
                    metadataFile, pages, loreFile, IMAGES_PER_PAGE, run, metadata,
                    page_num, total_pages, log, exitStatus, thumbEvents, thumbsAtStart >>
    /\ UNCHANGED toolVars

\* One iteration of the loop over the sorted listing.
ProcessImage ==
    /\ pc = "loop"
    /\ todo # << >>
    /\ LET fname == Head(todo)
           kind == imageKind[fname]
           path == thumb_path(fname)
           attempt == NeedsThumbnail(path, thumbs)
           made == create_optimized_thumbnail(join(IMAGE_FOLDER, fname), path, kind)
           data == image_data(fname, kind)
       IN  IF IsImage(fname)
           THEN /\ thumbs' = IF attempt /\ made.ok
                             THEN (made.path :> [ from |-> fname, run |-> run ]) @@ thumbs
                             ELSE thumbs
                /\ written' = IF attempt /\ made.ok THEN written \cup { made.path }
                              ELSE written
                /\ log' = IF ~attempt THEN log
                          ELSE IF made.ok
                          THEN Append(log, Notice("thumbnail_created", thumb_name(fname)))
                          ELSE Append(log, Notice("thumbnail_failed", join(IMAGE_FOLDER, fname)))
                /\ thumbEvents' = (fname :> [ existed |-> path \in DOMAIN thumbs ]) @@ thumbEvents
                /\ metadata' = [ images |-> Append(metadata.images, data),
                                 tags |-> metadata.tags \cup Range(data.auto_tags),
                                 total_count |-> metadata.total_count + 1 ]
           ELSE UNCHANGED << thumbs, written, log, thumbEvents, metadata >>
    /\ todo' = Tail(todo)
    /\ UNCHANGED << imgFolderExists, entries, imageKind, thumbDirExists, outFolderExists,
                    metadataFile, pages, loreFile, IMAGES_PER_PAGE, pc, run, page_num,
                    total_pages, exitStatus, thumbsAtStart >>
    /\ UNCHANGED toolVars

\* After the loop: metadata["tags"] = list(metadata["tags"]), then the JSON document
\* is written into OUTPUT_FOLDER.  open() raises when that folder does not exist and
\* nothing catches it: the interpreter prints the traceback and exits with status 1.
SaveMetadata ==
    /\ pc = "loop"
    /\ todo = << >>
    /\ \E tags \in Orderings(metadata.tags) :
          /\ metadata' = [ metadata EXCEPT !.tags = tags ]
          /\ IF outFolderExists
             THEN /\ metadataFile' = { metadata' }
                  /\ written' = written \cup { join(OUTPUT_FOLDER, METADATA_NAME) }
                  /\ log' = Append(log, Notice("metadata_generated", Str(metadata.total_count)))
                  /\ pc' = "main_check"
                  /\ exitStatus' = exitStatus
             ELSE /\ log' = Append(log, Notice("traceback", join(OUTPUT_FOLDER, METADATA_NAME)))
                  /\ pc' = "exit"
                  /\ exitStatus' = 1
                  /\ UNCHANGED << metadataFile, written >>
    /\ UNCHANGED << imgFolderExists, entries, imageKind, thumbDirExists, thumbs,
                    outFolderExists, pages, loreFile, IMAGES_PER_PAGE, run, todo,
                    page_num, total_pages, thumbEvents, thumbsAtStart >>
    /\ UNCHANGED toolVars

(***************************************************************************)
(* main                                                                    *)
(***************************************************************************)
\* if metadata["total_count"] == 0: print, sys.exit(1)
MainCheck ==
    /\ pc = "main_check"
    /\ IF metadata.total_count = 0
       THEN /\ log' = Append(log, Notice("no_valid_images", << >>))
            /\ exitStatus' = 1
            /\ pc' = "exit"
       ELSE /\ pc' = "write_pages"
            /\ UNCHANGED << log, exitStatus >>
    /\ UNCHANGED << fsVars, IMAGES_PER_PAGE, run, metadata, todo, page_num,
                    total_pages, written, thumbEvents, thumbsAtStart >>
    /\ UNCHANGED toolVars

(***************************************************************************)
(* write_enhanced_pages                                                    *)
(***************************************************************************)
\* The zero check, os.makedirs(OUTPUT_FOLDER, exist_ok=True) and the page count.
BeginPages ==
    /\ pc = "write_pages"
    /\ IF Len(metadata.images) = 0
       THEN /\ log' = Append(log, Notice("no_images_for_gallery", << >>))
            /\ exitStatus' = 1
            /\ pc' = "exit"
            /\ UNCHANGED << outFolderExists, written, total_pages, page_num >>
       ELSE /\ outFolderExists' = TRUE
            /\ written' = IF outFolderExists THEN written
                          ELSE written \cup { OUTPUT_FOLDER }
            /\ total_pages' = TotalPages(Len(metadata.images), IMAGES_PER_PAGE)
            /\ page_num' = 1
            /\ pc' = "page_loop"
            /\ UNCHANGED << log, exitStatus >>
    /\ UNCHANGED << imgFolderExists, entries, imageKind, thumbDirExists, thumbs,
                    metadataFile, pages, loreFile, IMAGES_PER_PAGE, run, metadata,
                    todo, thumbEvents, thumbsAtStart >>
    /\ UNCHANGED toolVars

\* One iteration of the loop over range(1, total_pages + 1).
WritePage ==
    /\ pc = "page_loop"
    /\ page_num <= total_pages
    /\ LET page_images == PageImages(metadata.images, page_num, IMAGES_PER_PAGE)
           html == generate_enhanced_html(page_images, page_num, total_pages, metadata)
           filename == PageFile(page_num)
       IN  /\ pages' = (filename :> html) @@ pages
           /\ written' = written \cup { filename }
           /\ log' = Append(log, Notice("page_generated", filename))
    /\ page_num' = page_num + 1
    /\ UNCHANGED << imgFolderExists, entries, imageKind, thumbDirExists, thumbs,
                    outFolderExists, metadataFile, loreFile, IMAGES_PER_PAGE, pc, run,
                    metadata, todo, total_pages, exitStatus, thumbEvents, thumbsAtStart >>
    /\ UNCHANGED toolVars

\* The loop is over: the summary is printed, main() writes the lore page and returns.
Finish ==
    /\ pc = "page_loop"
    /\ page_num > total_pages
    /\ IF LoreSourceExists
       THEN /\ loreFile' = TRUE
            /\ written' = written \cup { join(OUTPUT_FOLDER, LORE_NAME) }
            /\ log' = log \o << Notice("pages_generated", Str(total_pages)),
                                Notice("lore_generated", join(OUTPUT_FOLDER, LORE_NAME)),
                                Notice("completed", << >>) >>
       ELSE /\ log' = log \o << Notice("pages_generated", Str(total_pages)),
                                Notice("lore_skipped", << >>),
                                Notice("completed", << >>) >>
            /\ UNCHANGED << loreFile, written >>
    /\ exitStatus' = 0
    /\ pc' = "exit"
    /\ UNCHANGED << imgFolderExists, entries, imageKind, thumbDirExists, thumbs,
                    outFolderExists, metadataFile, pages, IMAGES_PER_PAGE, run,
                    metadata, todo, page_num, total_pages, thumbEvents, thumbsAtStart >>
    /\ UNCHANGED toolVars

\* The program is started again over the file system the previous run left.
Rerun ==
    /\ pc = "exit"
    /\ run < MaxRuns
    /\ run' = run + 1
    /\ pc' = "start"
    /\ metadata' = EmptyMetadata
    /\ todo' = << >>
    /\ page_num' = 0
    /\ total_pages' = 0
    /\ log' = << Notice("start", << >>) >>
    /\ exitStatus' = -1
    /\ written' = {}
    /\ thumbEvents' = NoEvents
    /\ thumbsAtStart' = thumbs
    /\ UNCHANGED << fsVars, IMAGES_PER_PAGE >>
    /\ UNCHANGED toolVars

Next ==
    \/ FolderMissing
    \/ ScanFolder
    \/ ProcessImage
    \/ SaveMetadata
    \/ MainCheck
    \/ BeginPages
    \/ WritePage
    \/ Finish
    \/ Rerun

Spec == Init /\ [][Next]_vars

(***************************************************************************)
(* write_enhanced_pages on its own: the state in which main() calls it,    *)
(* for a source folder of n >= 1 decodable images "01.png", "02.png", ...  *)
(* whose thumbnails are all cached: the banner and the metadata notice     *)
(* have been printed and the metadata document has been written.           *)
(***************************************************************************)
\* most records handed to write_enhanced_pages
MaxRecords == 45

\* largest page size tried with them
MaxPerPage == 20

RecordName(i) ==
    (IF i < 10 THEN << "0" >> ELSE << >>) \o Str(i) \o << ".", "p", "n", "g" >>

RecordNames(n) == { RecordName(i) : i \in 1..n }

InitPages ==
    /\ imgFolderExists = TRUE
    /\ \E n \in 1..MaxRecords :
          /\ entries = RecordNames(n)
          /\ metadata = [ images |-> [ i \in 1..n |-> image_data(RecordName(i), "ok") ],
                          tags |-> << >>,
                          total_count |-> n ]
          /\ log = << Notice("start", << >>), Notice("metadata_generated", Str(n)) >>
    /\ imageKind = [ f \in entries |-> "ok" ]
    /\ thumbs = [ p \in { thumb_path(f) : f \in entries } |-> OldThumb ]
    /\ thumbDirExists = TRUE
    /\ outFolderExists = TRUE
    /\ metadataFile = { metadata }
    /\ pages = NoFiles
    /\ loreFile = FALSE
    /\ IMAGES_PER_PAGE \in 1..MaxPerPage
    /\ pc = "write_pages"
    /\ run = 1
    /\ todo = << >>
    /\ page_num = 0
    /\ total_pages = 0
    /\ exitStatus = -1
    /\ written = { join(OUTPUT_FOLDER, METADATA_NAME) }
    /\ thumbEvents = [ f \in entries |-> [ existed |-> TRUE ] ]
    /\ thumbsAtStart = thumbs
    /\ ToolsIdle

NextPages ==
    \/ BeginPages
    \/ WritePage
    \/ Finish

SpecPages == InitPages /\ [][NextPages]_vars

(***************************************************************************)
(* parse_filename_enhanced on its own: one call, on a name put together    *)
(* from up to MaxSegments segments joined by "_" and an extension.  The    *)
(* gallery generator is not running.                                       *)
(***************************************************************************)
GalleryIdle ==
    /\ imgFolderExists = FALSE
    /\ entries = {}
    /\ imageKind = [ f \in {} |-> "ok" ]
    /\ thumbDirExists = FALSE
    /\ thumbs = NoFiles
    /\ outFolderExists = FALSE
    /\ metadataFile = {}
    /\ pages = NoFiles
    /\ loreFile = FALSE
    /\ IMAGES_PER_PAGE = 1
    /\ pc = "idle"
    /\ run = 0
    /\ metadata = EmptyMetadata
    /\ todo = << >>
    /\ page_num = 0
    /\ total_pages = 0
    /\ log = << >>
    /\ exitStatus = -1
    /\ written = {}
    /\ thumbEvents = NoEvents
    /\ thumbsAtStart = NoFiles

\* most segments of a name
MaxSegments == 4

SegmentPool ==
    { << >>,
      << "a" >>,
      << "E", "n", "d" >>,
      << "2", "-", "3", "T" >>,
      << "x", "p", "v", "p" >>,
      << "b", ".", "c" >> }

ExtensionPool == { << >>, << ".", "p", "n", "g" >>, << ".", "J", "P", "G" >> }

\* "_".join(segs)
RECURSIVE JoinSegments(_)
JoinSegments(segs) ==
    IF Len(segs) = 0 THEN << >>
    ELSE IF Len(segs) = 1 THEN segs[1]
    ELSE segs[1] \o << "_" >> \o JoinSegments(Tail(segs))

ParseInputs ==
    { JoinSegments(segs) \o ext :
        segs \in UNION { [ 1..n -> SegmentPool ] : n \in 1..MaxSegments },
        ext \in ExtensionPool }

InitParse ==
    /\ GalleryIdle
    /\ argument \in ParseInputs
    /\ result = {}
    /\ folder = NoNames
    /\ remaining = << >>
    /\ cpc = "idle"
    /\ pass = 0
    /\ renames = {}
    /\ folderAtStart = NoNames

\* the call returns
Parse ==
    /\ pc = "idle"
    /\ cpc = "idle"
    /\ result = {}
    /\ result' = { parse_filename_enhanced(argument) }
    /\ UNCHANGED << galleryVars, argument, folder, remaining, cpc, pass, renames,
                    folderAtStart >>

NextParse == Parse

SpecParse == InitParse /\ [][NextParse]_vars

(***************************************************************************)
(* convert_images.py: rename_files_clean_prefix over FOLDER, run up to     *)
(* MaxPasses times in a row.  An entry of the folder is a file or a        *)
(* sub-directory; a file keeps, as its origin, the name it had before the  *)
(* first pass.                                                             *)
(***************************************************************************)
FOLDER == IMAGE_FOLDER

PREFIX == << "m", "i", "n", "e", "c", "r", "a", "f", "t", "_" >>

KNOWN_PREFIXES ==
    << << "m", "c", "_" >>,
       << "m", "c", "_", "m", "i", "n", "e", "c", "r", "a", "f", "t", "_" >>,
       << "m", "i", "n", "e", "c", "r", "a", "f", "t", "_", "m", "i", "n", "e", "c", "r", "a", "f", "t", "_" >>,
       << "m", "i", "n", "e", "c", "r", "a", "f", "t", "_" >> >>

\* the first entry of KNOWN_PREFIXES that filename starts with is cut off
strip_known_prefixes(filename) ==
    LET hits == { i \in 1..Len(KNOWN_PREFIXES) : StartsWith(filename, KNOWN_PREFIXES[i]) }
    IN  IF hits = {} THEN filename
        ELSE LET known == KNOWN_PREFIXES[CHOOSE i \in hits : \A j \in hits : i <= j]
             IN  Slice(filename, Len(known), Len(filename))

\* most entries of the folder
MaxNames == 3

\* most passes in a row
MaxPasses == 2

RenameUniverse ==
    { << "a" >>,
      << "m", "c", "_", "a" >>,
      << "m", "i", "n", "e", "c", "r", "a", "f", "t", "_", "a" >>,
      << "m", "c", "_", "m", "i", "n", "e", "c", "r", "a", "f", "t", "_", "a" >>,
      << "m", "i", "n", "e", "c", "r", "a", "f", "t", "_", "m", "i", "n", "e", "c", "r", "a", "f", "t", "_", "a" >>,
      << "m", "i", "n", "e", "c", "r", "a", "f", "t", "_", "m", "c", "_", "a" >>,
      << "m", "c", "_", "m", "c", "_", "a" >> }

\* os.path.isfile(os.path.join(FOLDER, name))
isfile(dir, name) == name \in DOMAIN dir /\ dir[name].kind = "file"

FilesOf(dir) == { n \in DOMAIN dir : dir[n].kind = "file" }

InitRename ==
    /\ GalleryIdle
    /\ argument = << >>
    /\ result = {}
    /\ \E S \in { T \in SUBSET RenameUniverse : Cardinality(T) <= MaxNames } :
          \E kinds \in [ S -> { "file", "dir" } ] :
              folder = [ n \in S |-> [ kind |-> kinds[n], origin |-> n ] ]
    /\ remaining = << >>
    /\ cpc = "start"
    /\ pass = 1
    /\ renames = {}
    /\ folderAtStart = folder

\* os.listdir(FOLDER): the names of the folder, in an order of its choosing
ListFolder ==
    /\ cpc = "start"
    /\ \E names \in Orderings(DOMAIN folder) : remaining' = names
    /\ cpc' = "loop"
    /\ UNCHANGED << galleryVars, argument, result, folder, pass, renames, folderAtStart >>

\* One iteration of the loop: a sub-directory is skipped, a name that is already
\* PREFIX + its stripped form is left alone, any other file is renamed.  os.rename
\* onto the name of another file replaces that file (POSIX).
VisitEntry ==
    /\ cpc = "loop"
    /\ remaining # << >>
    /\ LET fname == Head(remaining)
           clean_name == strip_known_prefixes(fname)
           new_name == PREFIX \o clean_name
       IN  IF ~isfile(folder, fname) \/ fname = new_name
           THEN UNCHANGED << folder, renames >>
           ELSE /\ ~(new_name \in DOMAIN folder /\ folder[new_name].kind = "dir")
                /\ folder' = [ n \in (DOMAIN folder \ { fname }) \cup { new_name } |->
                                 IF n = new_name THEN folder[fname] ELSE folder[n] ]
                /\ renames' = renames \cup { << fname, new_name >> }
    /\ remaining' = Tail(remaining)
    /\ UNCHANGED << galleryVars, argument, result, cpc, pass, folderAtStart >>

\* os.rename raises: the destination is a sub-directory, or it is another file and
\* the platform does not replace files (Windows).  Nothing catches it.
RenameRaises ==
    /\ cpc = "loop"
    /\ remaining # << >>
    /\ LET fname == Head(remaining)
           new_name == PREFIX \o strip_known_prefixes(fname)
       IN  /\ isfile(folder, fname)
           /\ fname # new_name
           /\ new_name \in DOMAIN folder
    /\ cpc' = "crashed"
    /\ UNCHANGED << galleryVars, argument, result, folder, remaining, pass, renames,
                    folderAtStart >>

\* the loop has visited the whole listing
EndPass ==
    /\ cpc = "loop"
    /\ remaining = << >>
    /\ cpc' = "done"
    /\ UNCHANGED << galleryVars, argument, result, folder, remaining, pass, renames,
                    folderAtStart >>

\* the script is run again
NextPass ==
    /\ cpc = "done"
    /\ pass < MaxPasses
    /\ pass' = pass + 1
    /\ cpc' = "start"
    /\ renames' = {}
    /\ folderAtStart' = folder
    /\ UNCHANGED << galleryVars, argument, result, folder, remaining >>

NextRename ==
    \/ ListFolder
    \/ VisitEntry
    \/ RenameRaises
    \/ EndPass
    \/ NextPass

SpecRename == InitRename /\ [][NextRename]_vars

(***************************************************************************)
(* Properties.                                                             *)
(***************************************************************************)
\* the ordinals of the pages the current run has written so far
PagesWritten == 1..(page_num - 1)

\* the run is over and main() returned normally
Completed == pc = "exit" /\ exitStatus = 0

Cards(images) == [ i \in 1..Len(images) |-> ImageCard(images[i]) ]

\* the cards of the pages 1..n, in page order
RECURSIVE CardsUpTo(_)
CardsUpTo(n) == IF n <= 0 THEN << >> ELSE CardsUpTo(n - 1) \o pages[PageFile(n)].cards

\* C1: the pages written so far hold, in page order, a prefix of the record
\* sequence, and once all pages are written their concatenation is the record
\* sequence itself: nothing dropped, duplicated or reordered.
C1_PagesPartitionRecords ==
    page_num >= 1 =>
        /\ PagesWritten \subseteq { n \in 1..total_pages : PageFile(n) \in DOMAIN pages }
        /\ \E k \in 0..Len(metadata.images) :
              CardsUpTo(page_num - 1) = Cards(SubSeq(metadata.images, 1, k))
        /\ Completed => CardsUpTo(total_pages) = Cards(metadata.images)

\* C1 witness: a completed run whose records span three pages, the last one short
C1_Witness ==
    /\ Completed
    /\ total_pages = 3
    /\ Len(metadata.images) = 45
    /\ IMAGES_PER_PAGE = 20

\* C2: the page count is ceil(N / S), every page but the last holds exactly S
\* records and the last holds between 1 and S.
C2_PageCountAndSizes ==
    page_num >= 1 =>
        LET N == Len(metadata.images)
            S == IMAGES_PER_PAGE
        IN  /\ total_pages * S >= N
            /\ (total_pages - 1) * S < N
            /\ \A i \in PagesWritten :
                  LET size == Len(pages[PageFile(i)].cards)
                  IN  IF i < total_pages THEN size = S ELSE size >= 1 /\ size <= S

\* C2 witness: 45 records with page size 20 give pages of 20, 20 and 5
C2_Witness ==
    /\ Completed
    /\ Len(metadata.images) = 45
    /\ IMAGES_PER_PAGE = 20
    /\ total_pages = 3
    /\ Len(pages[PageFile(1)].cards) = 20
    /\ Len(pages[PageFile(2)].cards) = 20
    /\ Len(pages[PageFile(3)].cards) = 5

LinksOfKind(nav, kind) == { i \in 1..Len(nav) : nav[i].kind = kind }

\* C3: on every written page p of T: First and Prev links exist iff p > 1, Next
\* and Last iff p < T, each ordinal 1..T has exactly one numbered link, and the
\* link marked current is exactly the one numbered p.
C3_NavigationTopology ==
    \A p \in PagesWritten :
        LET nav == pages[PageFile(p)].nav
            T == total_pages
        IN  /\ Cardinality(LinksOfKind(nav, "first")) = (IF p > 1 THEN 1 ELSE 0)
            /\ Cardinality(LinksOfKind(nav, "prev")) = (IF p > 1 THEN 1 ELSE 0)
            /\ Cardinality(LinksOfKind(nav, "next")) = (IF p < T THEN 1 ELSE 0)
            /\ Cardinality(LinksOfKind(nav, "last")) = (IF p < T THEN 1 ELSE 0)
            /\ \A n \in 1..T :
                  Cardinality({ i \in LinksOfKind(nav, "page") : nav[i].ordinal = n }) = 1
            /\ \A i \in LinksOfKind(nav, "page") : nav[i].ordinal \in 1..T
            /\ \A i \in 1..Len(nav) :
                  nav[i].active <=> (nav[i].kind = "page" /\ nav[i].ordinal = p)

\* C3 witness: a middle page, a first page and a last page of a multi-page run exist
C3_Witness ==
    /\ Completed
    /\ total_pages >= 3
    /\ Len(pages[PageFile(2)].nav) = total_pages + 4
    /\ Len(pages[PageFile(1)].nav) = total_pages + 2

\* the current run wrote the thumbnail of fname, from fname's pixels
ThumbWrittenFor(fname) ==
    /\ thumb_path(fname) \in DOMAIN thumbs
    /\ thumbs[thumb_path(fname)] = [ from |-> fname, run |-> run ]

\* C4 as stated: the thumbnail of a processed image is written if and only if no
\* file existed at its destination path when the image was processed.
C4_WrittenIffAbsent ==
    \A f \in DOMAIN thumbEvents : ThumbWrittenFor(f) <=> ~thumbEvents[f].existed

\* C4 amended: the thumbnail of a processed image is written if and only if no
\* file existed at its destination path and the image could be decoded and
\* encoded; every thumbnail that existed when the run began is untouched; a
\* second run over the unchanged folder writes no thumbnail.
C4_WrittenIffAbsentAndCreatable ==
    /\ \A f \in DOMAIN thumbEvents :
          ThumbWrittenFor(f) <=> (~thumbEvents[f].existed /\ imageKind[f] = "ok")
    /\ \A p \in DOMAIN thumbsAtStart : p \in DOMAIN thumbs /\ thumbs[p] = thumbsAtStart[p]
    /\ run >= 2 => thumbs = thumbsAtStart

\* C4 witness: a second run has processed an image whose thumbnail the first run
\* made and one whose thumbnail cannot be made, and a cached thumbnail older than
\* both runs is still there
C4_Witness ==
    /\ run = 2
    /\ pc = "exit"
    /\ \E f \in DOMAIN thumbEvents :
          /\ thumbEvents[f].existed
          /\ thumbs[thumb_path(f)] = [ from |-> f, run |-> 1 ]
    /\ \E f \in DOMAIN thumbEvents : ~thumbEvents[f].existed /\ imageKind[f] # "ok"
    /\ \E p \in DOMAIN thumbs : thumbs[p] = OldThumb

\* C5: once the run is over, no record of the written metadata and no card of a
\* written page names a thumbnail that is not on disk.
C5_NoDanglingThumbnail ==
    pc = "exit" =>
        /\ \A doc \in metadataFile : \A i \in 1..Len(doc.images) :
              doc.images[i].thumbnail \in DOMAIN thumbs
        /\ \A p \in PagesWritten : \A i \in 1..Len(pages[PageFile(p)].cards) :
              pages[PageFile(p)].cards[i].thumbnail \in DOMAIN thumbs

\* the union of the auto tags of the records of a metadata document
TagUniverse(doc) == UNION { Range(doc.images[i].auto_tags) : i \in 1..Len(doc.images) }

\* s is strictly increasing in Python's string order
StrictlyIncreasing(s) == \A i \in 1..(Len(s) - 1) : StrLess(s[i], s[i + 1])

\* C6: the tags field of the written metadata lists the tag universe in sorted
\* order, each tag once.
C6_TagsSorted ==
    \A doc \in metadataFile :
        /\ Range(doc.tags) = TagUniverse(doc)
        /\ StrictlyIncreasing(doc.tags)

Filenames(images) == [ i \in 1..Len(images) |-> images[i].filename ]

\* C7: the records built so far, the entries still to visit and the cards of the
\* pages written so far are each in strictly increasing order of filename.
C7_RecordsInFilenameOrder ==
    /\ StrictlyIncreasing(Filenames(metadata.images) \o todo)
    /\ StrictlyIncreasing([ i \in 1..Len(CardsUpTo(page_num - 1)) |->
                              CardsUpTo(page_num - 1)[i].alt ])
    /\ Completed => Range(Filenames(metadata.images)) = Images(entries)

\* C7 witness: a completed run over three images, the first of which is the one
\* whose name starts with an upper-case letter
C7_Witness ==
    /\ Completed
    /\ Len(metadata.images) = 3
    /\ metadata.images[1].filename[1] = "P"
    /\ total_pages >= 2

\* C8: in a run whose source folder does not exist nothing is created or written,
\* and the run ends with status 1.
C8_MissingFolderWritesNothing ==
    ~imgFolderExists =>
        /\ written = {}
        /\ metadataFile = {}
        /\ DOMAIN pages = {}
        /\ thumbs = thumbsAtStart
        /\ ~loreFile
        /\ pc = "exit" => exitStatus = 1

\* C8 witness: a run without source folder has ended
C8_Witness == ~imgFolderExists /\ pc = "exit" /\ ~thumbDirExists /\ ~outFolderExists

\* fname ends, case-insensitively, in one of the recognized extensions
Recognized(fname) ==
    \E ext \in VALID_EXTENSIONS :
        /\ Len(fname) > Len(ext)
        /\ Lower(SubSeq(fname, Len(fname) - Len(ext) + 1, Len(fname))) = ext
        /\ \E k \in 1..(Len(fname) - Len(ext)) : fname[k] # "."

HasNotice(kind) == \E i \in 1..Len(log) : log[i].kind = kind

\* C9: a run over an existing folder without recognized image ends with status 1
\* and writes no page; it does not print the folder-not-found notice, which every
\* run without source folder prints.
C9_NoImagesIsAnError ==
    pc = "exit" =>
        /\ (imgFolderExists /\ ~\E f \in entries : Recognized(f)) =>
              /\ exitStatus = 1
              /\ DOMAIN pages = {}
              /\ \A p \in written : ~StartsWith(p, join(OUTPUT_FOLDER, OUTPUT_PREFIX))
              /\ ~HasNotice("folder_not_found")
        /\ ~imgFolderExists => HasNotice("folder_not_found")

\* C9 witness: a run over a folder that holds only a text file has ended with
\* the no-valid-images notice
C9_Witness ==
    /\ pc = "exit"
    /\ imgFolderExists
    /\ entries # {}
    /\ ~\E f \in entries : Recognized(f)
    /\ HasNotice("no_valid_images")

\* C10: a run over an existing folder with at least one recognized image ends
\* normally, with exactly one record per recognized image, each carrying its
\* parsed tag and timestamp, whatever the images' thumbnail and dimension reads did.
C10_PerImageFailuresIsolated ==
    (pc = "exit" /\ imgFolderExists /\ \E f \in entries : Recognized(f)) =>
        /\ exitStatus = 0
        /\ Len(metadata.images) = Cardinality({ f \in entries : Recognized(f) })
        /\ Range(Filenames(metadata.images)) = { f \in entries : Recognized(f) }
        /\ \A i \in 1..Len(metadata.images) :
              LET img == metadata.images[i]
              IN  /\ img.tag = parse_filename_enhanced(img.filename).tag
                  /\ img.date = parse_filename_enhanced(img.filename).date

\* the same, for the runs whose output folder exists when the run starts
C10_WhenOutputFolderExists ==
    (\A i \in 1..Len(log) : log[i].kind # "traceback") => C10_PerImageFailuresIsolated

(***************************************************************************)
(* Recovered failures and their notices.                                   *)
(***************************************************************************)
\* the run tried to make fname's thumbnail and create_optimized_thumbnail failed
ThumbnailFailed(fname) == ~thumbEvents[fname].existed /\ imageKind[fname] # "ok"

\* Image.open raised in the dimension read of fname
DimensionReadFailed(fname) == imageKind[fname] = "undecodable"

\* some line printed by the current run, other than the start banner, names fname
NoticeNames(fname) ==
    \E i \in 1..Len(log) :
        /\ log[i].kind \in { "thumbnail_failed", "dimension_failed" }
        /\ log[i].arg \in { fname, join(IMAGE_FOLDER, fname) }

\* C11: when a run has ended, every image whose thumbnail generation failed and
\* every image whose dimension read failed is named by a failure notice that the
\* run printed.
C11_FailuresSurfaced ==
    pc = "exit" =>
        \A fname \in DOMAIN thumbEvents :
            (ThumbnailFailed(fname) \/ DimensionReadFailed(fname)) => NoticeNames(fname)

\* C12: when a run has ended, no two distinct recognized files of the folder share
\* a thumbnail path, and every decodable image that the run processed has at its
\* thumbnail path a file made from that image (or one older than the first run).
C12_OwnThumbnail ==
    pc = "exit" =>
        /\ \A f \in Images(entries) : \A g \in Images(entries) :
              f # g => thumb_path(f) # thumb_path(g)
        /\ \A f \in DOMAIN thumbEvents :
              imageKind[f] = "ok" =>
                 /\ thumb_path(f) \in DOMAIN thumbs
                 /\ thumbs[thumb_path(f)].from \in { f, OldThumb.from }

\* C17: a path under OUTPUT_FOLDER is written only while that folder exists, and a
\* run over an existing source folder with at least one recognized image ends with
\* the output folder present, the metadata document and every page written, and
\* exit status 0.
C17_OutputFolderCreatedFirst ==
    /\ (written \ ({ THUMBNAIL_FOLDER } \cup { thumb_path(f) : f \in entries })) # {}
          => outFolderExists
    /\ (pc = "exit" /\ imgFolderExists /\ \E f \in entries : Recognized(f)) =>
          /\ outFolderExists
          /\ metadataFile # {}
          /\ join(OUTPUT_FOLDER, METADATA_NAME) \in written
          /\ \A p \in 1..TotalPages(Len(metadata.images), IMAGES_PER_PAGE) :
                PageFile(p) \in written
          /\ exitStatus = 0

(***************************************************************************)
(* Page file names, read back from the names themselves.                   *)
(***************************************************************************)
Numerals == << "0", "1", "2", "3", "4", "5", "6", "7", "8", "9" >>

\* s is a decimal numeral without a leading zero
IsNumeral(s) ==
    /\ Len(s) >= 1
    /\ \A i \in 1..Len(s) : s[i] \in Range(Numerals)
    /\ s[1] # "0"

RECURSIVE DecimalValue(_)
DecimalValue(s) ==
    IF s = << >> THEN 0
    ELSE 10 * DecimalValue(SubSeq(s, 1, Len(s) - 1))
         + ((CHOOSE d \in 1..10 : Numerals[d] = s[Len(s)]) - 1)

\* href is the page name of page p: "index.html" for page 1, "index<p>.html" otherwise
HrefNamesPage(href, p) ==
    LET first == Len(OUTPUT_PREFIX) + 1
        last == Len(href) - Len(HTML_EXT)
        middle == SubSeq(href, first, last)
    IN  /\ last >= first - 1
        /\ SubSeq(href, 1, first - 1) = OUTPUT_PREFIX
        /\ SubSeq(href, last + 1, Len(href)) = HTML_EXT
        /\ IF p = 1 THEN middle = << >>
           ELSE IsNumeral(middle) /\ DecimalValue(middle) = p

\* the file a link of a page in OUTPUT_FOLDER leads to
LinkedFile(href) == OUTPUT_FOLDER \o << "/" >> \o href

\* the page a link of page p of T is meant to lead to
LinkTarget(link, p, T) ==
    CASE link.kind = "first" -> 1
      [] link.kind = "prev" -> p - 1
      [] link.kind = "next" -> p + 1
      [] link.kind = "last" -> T
      [] OTHER -> link.ordinal

\* C16: after a completed run with T pages, page p is in the file named for p
\* (unsuffixed for page 1, suffixed by p otherwise), and every link on every page
\* carries the name of the page it is meant to lead to (Prev p-1, Next p+1, First 1,
\* Last T, a numbered link its ordinal), which is a file this run wrote.
C16_LinksLeadToWrittenPages ==
    Completed =>
        \A p \in 1..total_pages :
            /\ \E path \in written :
                  /\ \E href \in { PageHref(<< >>), PageHref(Str(p)) } :
                        path = LinkedFile(href) /\ HrefNamesPage(href, p)
                  /\ path \in DOMAIN pages
                  /\ pages[path].page_num = p
                  /\ \A i \in 1..Len(pages[path].nav) :
                        LET link == pages[path].nav[i]
                            target == LinkTarget(link, p, total_pages)
                        IN  /\ target \in 1..total_pages
                            /\ HrefNamesPage(link.href, target)
                            /\ LinkedFile(link.href) \in written
                            /\ pages[LinkedFile(link.href)].page_num = target

\* C16 witness: a completed run of 12 pages, whose page 2 links back to
\* "index.html" and whose page 11 links on to "index12.html"
C16_Witness ==
    /\ Completed
    /\ total_pages = 12
    /\ \E i \in 1..Len(pages[PageFile(2)].nav) :
          /\ pages[PageFile(2)].nav[i].kind = "prev"
          /\ pages[PageFile(2)].nav[i].href
                = << "i", "n", "d", "e", "x", ".", "h", "t", "m", "l" >>
    /\ \E i \in 1..Len(pages[PageFile(11)].nav) :
          /\ pages[PageFile(11)].nav[i].kind = "next"
          /\ pages[PageFile(11)].nav[i].href
                = << "i", "n", "d", "e", "x", "1", "2", ".", "h", "t", "m", "l" >>

(***************************************************************************)
(* The segments of a name, read off the positions of its underscores.      *)
(***************************************************************************)
Underscores(s) == { i \in 1..Len(s) : s[i] = "_" }

SegmentCount(s) == Cardinality(Underscores(s)) + 1

\* the k-th underscore-delimited segment of s, for k in 1..SegmentCount(s)
Segment(s, k) ==
    LET cuts == { 0, Len(s) + 1 } \cup Underscores(s)
        Cut(n) == CHOOSE x \in cuts : Cardinality({ y \in cuts : y < x }) = n
    IN  [ i \in 1..(Cut(k) - Cut(k - 1) - 1) |-> s[Cut(k - 1) + i] ]

\* t with every hyphen turned into a colon
Colons(t) == [ i \in 1..Len(t) |-> IF t[i] = "-" THEN ":" ELSE t[i] ]

\* the non-empty string t occurs in s
Occurs(t, s) ==
    \E i \in 1..Len(s) : \A j \in 1..Len(t) : i + j - 1 <= Len(s) /\ s[i + j - 1] = t[j]

Stem(fname) == splitext(fname)[1]

\* C13 as stated: for a stem of at least 3 segments the primary tag is the
\* filename's first segment and the timestamp is its second segment, a space, and
\* its third segment with every hyphen replaced by a colon.
C13_FilenameSegments ==
    \A r \in result :
        SegmentCount(Stem(argument)) >= 3 =>
            /\ r.tag = Segment(Stem(argument), 1)
            /\ r.date = Segment(Stem(argument), 2) \o << " " >>
                           \o Colons(Segment(Stem(argument), 3))

\* C13: for a stem of at least 3 segments the primary tag is the first segment of
\* the lower-cased stem and the timestamp is the second segment of the lower-cased
\* stem, a space, and its third segment with every hyphen replaced by a colon.
C13_LowerCasedSegments ==
    \A r \in result :
        SegmentCount(Stem(argument)) >= 3 =>
            /\ r.tag = Segment(Lower(Stem(argument)), 1)
            /\ r.date = Segment(Lower(Stem(argument)), 2) \o << " " >>
                           \o Colons(Segment(Lower(Stem(argument)), 3))

\* C13 witness: "End_a_2-3T.png" has been parsed into "end" and "a 2:3t"
C13_Witness ==
    /\ argument = << "E", "n", "d", "_", "a", "_", "2", "-", "3", "T", ".", "p", "n", "g" >>
    /\ \E r \in result :
          /\ r.tag = << "e", "n", "d" >>
          /\ r.date = << "a", " ", "2", ":", "3", "t" >>

\* the vocabulary tags that occur in the lower-cased stem, wherever its underscores are
TagsInStem(fname) ==
    { t \in Range(AVAILABLE_TAGS) : Occurs(t, Lower(Stem(fname))) }

\* C14: every call returns a primary tag, a timestamp and auto tags; for a stem of
\* fewer than 3 segments the primary tag is "screenshot", the timestamp "Unknown",
\* and the auto tags are the vocabulary tags occurring in the lower-cased stem, as
\* for any other name.
C14_FallbackKeepsTags ==
    \A r \in result :
        /\ DOMAIN r = { "tag", "date", "auto_tags" }
        /\ Range(r.auto_tags) = TagsInStem(argument)
        /\ SegmentCount(Stem(argument)) < 3 =>
              /\ r.tag = << "s", "c", "r", "e", "e", "n", "s", "h", "o", "t" >>
              /\ r.date = << "U", "n", "k", "n", "o", "w", "n" >>

\* C14 witness: a name without underscores, or one with a single underscore, has
\* been parsed into the fallback values with a tag detected
C14_Witness ==
    /\ SegmentCount(Stem(argument)) < 3
    /\ argument \in { << "x", "p", "v", "p" >>,
                      << "E", "n", "d", "_", "a", ".", "J", "P", "G" >> }
    /\ \E r \in result : r.auto_tags # << >> /\ r.date = << "U", "n", "k", "n", "o", "w", "n" >>

\* C15: the auto tags are exactly the vocabulary tags occurring in some segment of
\* the lower-cased stem, each listed once; so they lie in the vocabulary and are
\* the auto tags of the lower-cased filename.
C15_TagsFromLowerCasedSegments ==
    \A r \in result :
        LET stem == Lower(Stem(argument))
        IN  /\ Range(r.auto_tags)
                  = { t \in Range(AVAILABLE_TAGS) :
                        \E k \in 1..SegmentCount(stem) : Occurs(t, Segment(stem, k)) }
            /\ Cardinality(Range(r.auto_tags)) = Len(r.auto_tags)
            /\ Range(r.auto_tags) \subseteq Range(AVAILABLE_TAGS)
            /\ r.auto_tags = parse_filename_enhanced(Lower(argument)).auto_tags

\* C15 witness: "xpvp_End.JPG" has been parsed and both "pvp" and "end" detected
C15_Witness ==
    /\ argument = << "x", "p", "v", "p", "_", "E", "n", "d", ".", "J", "P", "G" >>
    /\ \E r \in result :
          Range(r.auto_tags) = { << "p", "v", "p" >>, << "e", "n", "d" >> }

(***************************************************************************)
(* convert_images.py                                                       *)
(***************************************************************************)
\* name is PREFIX followed by a name that starts with none of the known prefixes
CleanName(name) ==
    /\ Len(name) >= Len(PREFIX)
    /\ SubSeq(name, 1, Len(PREFIX)) = PREFIX
    /\ \A k \in 1..Len(KNOWN_PREFIXES) :
          LET rest == SubSeq(name, Len(PREFIX) + 1, Len(name))
              known == KNOWN_PREFIXES[k]
          IN  ~(Len(rest) >= Len(known) /\ SubSeq(rest, 1, Len(known)) = known)

\* C18: when the first pass over a folder has ended, every file is named PREFIX
\* followed by a name that starts with none of the known prefixes, and the folder
\* holds as many files as before the pass, each of them one of the original files;
\* when a second pass has ended, it has renamed nothing.
C18_RenameIdempotentLossless ==
    /\ (cpc = "done" /\ pass = 1) =>
          /\ \A n \in FilesOf(folder) : CleanName(n)
          /\ Cardinality(FilesOf(folder)) = Cardinality(FilesOf(folderAtStart))
          /\ { folder[n].origin : n \in FilesOf(folder) } = FilesOf(folderAtStart)
    /\ (cpc = "done" /\ pass = 2) => renames = {}

====
